---- MODULE Spec2Model ----
(***************************************************************************)
(* A model of the Trello client's request core, src/http.ts makeRequest:   *)
(* the request it builds from its arguments, the classification of the     *)
(* response, the randomised backoff after a 429 and the recursive retry.   *)
(*                                                                         *)
(* Strings the code computes on (the method) are sequences of one-letter   *)
(* strings, so that replace(/json$/, ''), includes('json') and             *)
(* toUpperCase() are computed as the code computes them. An optional value *)
(* (undefined in the code) is the empty sequence, a present one <<v>>.     *)
(***************************************************************************)
EXTENDS Integers, Sequences, FiniteSets, TLC

VARIABLES
    args,       \* call -> the arguments of the current makeRequest frame
    pc,         \* call -> where the call is suspended
    requests,   \* call -> the requests handed to fetch, in order
    response,   \* call -> the response the current frame received, if any
    netError,   \* call -> the error fetch rejected with, if any
    delay,      \* call -> the delay of the pending setTimeout, if any
    timers,     \* call -> how many times the call called setTimeout
    limited,    \* call -> how many 429 responses the call received
    outcome,    \* call -> the state of the promise makeRequest returned
    mock,       \* the transport, when it is a mock that hands out queued responses
    inflight,   \* call -> the response the mock settled the pending fetch with
    params,     \* call -> what the caller passed to the Facade method, if any
    callerOptions,  \* call -> the caller's options object, as it is now
    trello      \* the Facade instance: its private fields uri, key and token

\* The variables of the transport.
envVars == <<mock, inflight>>

\* The variables of the Facade and of its caller.
facadeVars == <<params, callerOptions, trello>>

vars == <<args, pc, requests, response, netError, delay, timers, limited, outcome,
          mock, inflight, params, callerOptions, trello>>

-----------------------------------------------------------------------------
(* Bounds of the model *)

\* The transport answers at most this many requests of one call with 429.
Max429 == 4

\* Math.random() returns a multiple of 1 / RandomScale in [0, 1) ...
RandomScale == 1000

\* ... namely RandomSteps evenly spaced values from 0 on, and the largest one.
RandomSteps == 8

-----------------------------------------------------------------------------
(* Constants of the program *)

MIN_REQUEST_DELAY == 500

MAX_REQUEST_DELAY == 7000

\* README.md, Rate Limiting: "up to 3 retry attempts".
MAX_RETRIES == 3

DefaultBaseUri == "https://api.trello.com"

-----------------------------------------------------------------------------
(* Strings as sequences of letters *)

LowerChars ==
    <<"a","b","c","d","e","f","g","h","i","j","k","l","m",
      "n","o","p","q","r","s","t","u","v","w","x","y","z">>

UpperChars ==
    <<"A","B","C","D","E","F","G","H","I","J","K","L","M",
      "N","O","P","Q","R","S","T","U","V","W","X","Y","Z">>

Digits == {"0","1","2","3","4","5","6","7","8","9"}

UpperChar(ch) ==
    IF \E i \in 1..Len(LowerChars) : LowerChars[i] = ch
    THEN UpperChars[CHOOSE i \in 1..Len(LowerChars) : LowerChars[i] = ch]
    ELSE ch

\* String.prototype.toUpperCase
ToUpperCase(s) == [i \in 1..Len(s) |-> UpperChar(s[i])]

\* String.prototype.includes
Includes(s, sub) ==
    \E i \in 1..(Len(s) - Len(sub) + 1) : SubSeq(s, i, i + Len(sub) - 1) = sub

EndsWith(s, suf) ==
    /\ Len(s) >= Len(suf)
    /\ SubSeq(s, Len(s) - Len(suf) + 1, Len(s)) = suf

StartsWith(s, pre) ==
    /\ Len(s) >= Len(pre)
    /\ SubSeq(s, 1, Len(pre)) = pre

JsonLower == <<"j","s","o","n">>

\* method.replace(/json$/, ''): the pattern is case-sensitive and anchored
\* at the end of the string.
ReplaceJsonSuffix(s) ==
    IF EndsWith(s, JsonLower) THEN SubSeq(s, 1, Len(s) - Len(JsonLower)) ELSE s

IndexOfAny(s, chars) ==
    IF \E i \in 1..Len(s) : s[i] \in chars
    THEN CHOOSE i \in 1..Len(s) : s[i] \in chars /\ \A j \in 1..(i-1) : s[j] \notin chars
    ELSE Len(s) + 1

-----------------------------------------------------------------------------
(* The verbs *)

GET == <<"G","E","T">>

POST == <<"P","O","S","T">>

PUT == <<"P","U","T">>

DELETE == <<"D","E","L","E","T","E">>

BaseVerbs == {GET, POST, PUT, DELETE}

\* type RequestMethod = 'post' | 'get' | 'put' | 'delete' | 'postjson' | 'putjson'
RequestMethod ==
    { <<"p","o","s","t">>, <<"g","e","t">>, <<"p","u","t">>,
      <<"d","e","l","e","t","e">>,
      <<"p","o","s","t","j","s","o","n">>, <<"p","u","t","j","s","o","n">> }

\* The accepted verbs in lower case: the RequestMethod type's, and the
\* JSON variants as the Facade names them ('POST_JSON', 'PUT_JSON').
LowerWords ==
    RequestMethod \cup
    { <<"p","o","s","t","_","j","s","o","n">>, <<"p","u","t","_","j","s","o","n">> }

Capitalise(s) == [i \in 1..Len(s) |-> IF i = 1 THEN UpperChar(s[i]) ELSE s[i]]

\* Every accepted verb in three letter cases: lower, UPPER and Capitalised.
Verbs ==
    LowerWords \cup {ToUpperCase(w) : w \in LowerWords}
               \cup {Capitalise(w) : w \in LowerWords}

\* The base verb a verb stands for, in upper case (the spec's wire method).
BaseVerbOf(verb) == CHOOSE b \in BaseVerbs : StartsWith(ToUpperCase(verb), b)

-----------------------------------------------------------------------------
(* Values, payloads and arguments *)

\* A JavaScript value: its type tag and, for the values the model uses, the
\* text that identifies it.
JsStr(x) == [t |-> "string", s |-> x]

JsObj(x) == [t |-> "object", s |-> x]

\* A number or a boolean, by its text: JsNum("0"), JsBool("false").
JsNum(x) == [t |-> "number", s |-> x]

JsBool(x) == [t |-> "boolean", s |-> x]

JsNull == [t |-> "null", s |-> "null"]

JsUndefined == [t |-> "undefined", s |-> "undefined"]

\* An array, by its elements.
JsArr(elements) == [t |-> "array", s |-> "array", elements |-> elements]

RECURSIVE JsString(_), Join(_)

\* Mutant of JsString: undefined is written as the empty string.
JsStringBlankUndefined(v) ==
    CASE v.t = "string" -> v.s
      [] v.t = "object" -> "[object Object]"
      [] v.t \in {"number", "boolean"} -> v.s
      [] v.t = "array" -> Join(v.elements)
      [] v.t = "undefined" -> ""
      [] OTHER -> v.t

\* String(value), as url.searchParams.append(key, String(value)) applies it.
JsString(v) ==
    CASE v.t = "string" -> v.s
      [] v.t = "object" -> "[object Object]"
      [] v.t \in {"number", "boolean"} -> v.s
      [] v.t = "array" -> Join(v.elements)
      [] OTHER -> v.t

\* Array.prototype.join(): the strings of the elements with a comma between
\* them, null and undefined elements as empty strings.
Join(elements) ==
    IF elements = <<>> THEN ""
    ELSE LET head == IF elements[1].t \in {"null", "undefined"} THEN ""
                     ELSE JsString(elements[1])
         IN  IF Len(elements) = 1 THEN head
             ELSE head \o "," \o Join(Tail(elements))

\* JSON.stringify(data) of the values the model uses.
JsonStringify(v) ==
    CASE v.t = "string" -> "\"" \o v.s \o "\""
      [] v.t = "object" -> "{" \o v.s \o "}"
      [] v.t \in {"number", "boolean"} -> v.s
      [] OTHER -> v.t

\* The falsy values: undefined, null, false, 0, NaN and the empty string.
Falsy ==
    {JsUndefined, JsNull, JsBool("false"), JsNum("0"), JsNum("NaN"), JsStr("")}

\* if (jsonOptions.data): an absent property reads as undefined.
Truthy(opt) == opt # <<>> /\ opt[1] \notin Falsy

JsonHeaders == [contentType |-> "application/json"]

AuthQuery == << <<"key", JsStr("test-key")>>, <<"token", JsStr("test-token")>> >>

\* The query of a call: its entries in the order Object.entries yields them.
Queries == { AuthQuery, AuthQuery \o << <<"param", JsStr("value")>> >> }

\* { query } (RequestOptions) and { headers, data?, query } (JsonRequestOptions).
Payloads ==
    [query : Queries, headers : {<<>>}, data : {<<>>}]
    \cup [query : {AuthQuery}, headers : {<<JsonHeaders>>},
          data : {<<>>, <<JsObj("\"name\":\"Test\"")>>}]

\* Paths: '/test', '/1/boards/' and ':x', which makes an invalid URL.
Uris ==
    { <<"/","t","e","s","t">>,
      <<"/","1","/","b","o","a","r","d","s","/">>,
      <<":","x">> }

Args == [method : Verbs, uri : Uris, options : Payloads, baseUri : {DefaultBaseUri}]

-----------------------------------------------------------------------------
(* Building the request: src/http.ts lines 24-52 *)

\* new URL(`${baseUri}${uri}`) for a base that is an origin without a
\* trailing slash: what precedes the first '/', '?' or '#' of uri extends the
\* authority. A ':' in it starts the port, which must be digits; otherwise
\* the constructor throws TypeError (Invalid URL).
UrlParse(baseUri, uri) ==
    LET cut   == IndexOfAny(uri, {"/", "?", "#"})
        auth  == SubSeq(uri, 1, cut - 1)
        colon == IndexOfAny(auth, {":"})
        port  == SubSeq(auth, colon + 1, Len(auth))
        path  == SubSeq(uri, cut, Len(uri))
    IN  [valid      |-> \A i \in 1..Len(port) : port[i] \in Digits,
         base       |-> baseUri,
         hostSuffix |-> SubSeq(auth, 1, colon - 1),
         pathname   |-> IF path = <<>> THEN <<"/">> ELSE path,
         search     |-> <<>>]

\* Object.entries(query).forEach(([key, value]) =>
\*     url.searchParams.append(key, String(value)))
AppendQuery(url, query) ==
    [url EXCEPT !.search =
        @ \o [i \in 1..Len(query) |-> <<query[i][1], JsString(query[i][2])>>]]

\* Mutant of WireMethod: the toUpperCase() call is forgotten.
WireMethodNoUpper(method) == ReplaceJsonSuffix(method)

\* fetchOptions.method
WireMethod(method) == ToUpperCase(ReplaceJsonSuffix(method))

\* if (method.includes('json'))
IsJsonMode(method) == Includes(method, JsonLower)

\* The synchronous prefix of makeRequest throws when new URL throws.
BuildThrows(a) == ~UrlParse(a.baseUri, a.uri).valid

\* Mutant of BuildRequest: a data object is sent as the body in either mode.
BuildRequestSendsData(a) ==
    LET url == AppendQuery(UrlParse(a.baseUri, a.uri), a.options.query)
    IN  [method  |-> WireMethod(a.method),
         url     |-> url,
         headers |-> IF IsJsonMode(a.method) THEN a.options.headers ELSE <<>>,
         body    |-> IF Truthy(a.options.data)
                     THEN <<JsonStringify(a.options.data[1])>>
                     ELSE <<>>]

\* The (url, fetchOptions) pair handed to fetch.
BuildRequest(a) ==
    LET url == AppendQuery(UrlParse(a.baseUri, a.uri), a.options.query)
    IN  IF IsJsonMode(a.method)
        THEN [method  |-> WireMethod(a.method),
              url     |-> url,
              headers |-> a.options.headers,
              body    |-> IF Truthy(a.options.data)
                          THEN <<JsonStringify(a.options.data[1])>>
                          ELSE <<>>]
        ELSE [method  |-> WireMethod(a.method),
              url     |-> url,
              headers |-> <<>>,
              body    |-> <<>>]

InvalidUrlError == [name |-> "TypeError", message |-> "Invalid URL", response |-> <<>>]

-----------------------------------------------------------------------------
(* The transport: what fetch can answer *)

Statuses == {200, 404, 429, 500}

Texts == {"Not Found", "Rate limit exceeded"}

\* What response.json() settles with: a parsed value, or the parser's error.
JsonResults ==
    [parses : {TRUE}, val : {"{}", "[{\"id\":\"board1\"}]"}]
    \cup [parses : {FALSE}, val : {"Unexpected end of JSON input"}]

\* The cooldown, in milliseconds, that the headers of a 429 response recommend.
Cooldowns == {1000, 10000}

\* A response object. Mock transports set ok and status independently; a 429
\* response may carry a recommended cooldown in its headers.
Responses ==
    { r \in [status : Statuses, ok : BOOLEAN, text : Texts, json : JsonResults,
             cooldown : {<<>>} \cup {<<d>> : d \in Cooldowns}] :
        r.status # 429 => r.cooldown = <<>> }

\* The errors fetch rejects with.
NetErrors ==
    { [name |-> "Error", message |-> "Network error", response |-> <<>>],
      [name |-> "TypeError", message |-> "fetch failed", response |-> <<>>] }

-----------------------------------------------------------------------------
(* makeRequest: src/http.ts lines 18-74 *)

\* The calls of the specification Spec: one call of makeRequest.
SoloCalls == {1}

Calls == DOMAIN pc

Pending == [state |-> "pending", value |-> <<>>, error |-> <<>>]

Fulfilled(v) == [state |-> "fulfilled", value |-> <<v>>, error |-> <<>>]

Rejected(e) == [state |-> "rejected", value |-> <<>>, error |-> <<e>>]

\* The values of Math.random(), as numerators over RandomScale: 0 <= n / RandomScale < 1.
Randoms ==
    {(k * RandomScale) \div RandomSteps : k \in 0..(RandomSteps - 1)} \cup {RandomScale - 1}

\* Mutant of BackoffDelay: the random factor spans MAX_REQUEST_DELAY, not the
\* width of the window.
BackoffDelayFullRange(n) ==
    ((n * MAX_REQUEST_DELAY) \div RandomScale) + MIN_REQUEST_DELAY

\* Mutant of BackoffDelay: the delay starts one millisecond above the minimum.
BackoffDelayAboveMin(n) ==
    ((n * (MAX_REQUEST_DELAY - MIN_REQUEST_DELAY - 1)) \div RandomScale)
        + MIN_REQUEST_DELAY + 1

\* Math.floor(Math.random() * (MAX_REQUEST_DELAY - MIN_REQUEST_DELAY))
\*     + MIN_REQUEST_DELAY, for Math.random() = n / RandomScale.
BackoffDelay(n) ==
    ((n * (MAX_REQUEST_DELAY - MIN_REQUEST_DELAY)) \div RandomScale) + MIN_REQUEST_DELAY

\* Mutant of Classify: the !ok test comes before the 429 test.
ClassifyOkFirst(r) ==
    IF ~r.ok THEN "error"
    ELSE IF r.status = 429 THEN "retry"
    ELSE "success"

\* The order of the tests on the response: 429 first, then !ok, then success.
Classify(r) ==
    IF r.status = 429 THEN "retry"
    ELSE IF ~r.ok THEN "error"
    ELSE "success"

\* Mutant of RetryArgs: the recursive call passes fetchOptions.method.
RetryArgsWireMethod(a) == [a EXCEPT !.method = WireMethod(a.method)]

\* The arguments of the recursive call: makeRequest(method, uri, options, baseUri).
RetryArgs(a) == a

\* Mutant of HttpError: the response is not attached to the error.
HttpErrorNoResponse(r) == [name |-> "Error", message |-> r.text, response |-> <<>>]

\* new Error(errorText) with the response attached as its 'response' property:
\* Object.defineProperty without 'enumerable' makes it non-enumerable, as the
\* message of an Error is, so the error has no enumerable property of its own.
HttpError(r) ==
    [name |-> "Error", message |-> r.text, response |-> <<r>>, enumerable |-> {}]

\* JSON.stringify(error): the own enumerable properties of the error.
JsonStringifyError(e) == [k \in e.enumerable |-> e[k]]

\* The error response.json() rejects with when the body is not JSON.
ParseError(r) == [name |-> "SyntaxError", message |-> r.json.val, response |-> <<>>]

\* A transport that is no mock: it answers each request as it likes.
NoMock == [on |-> FALSE, script |-> <<>>, next |-> 1]

\* The options of a caller that passes none.
NoOptions == [t |-> "undefined", entries |-> <<>>]

\* The credentials of the tests.
ApiKey == "test-key"

ApiToken == "test-token"

\* No instance of the Facade has been constructed.
NoInstance ==
    [status |-> "none", uri |-> "", key |-> JsUndefined, token |-> JsUndefined,
     error |-> <<>>]

\* The instance a constructor call that returns leaves behind.
Instance(key, token) ==
    [status |-> "ok", uri |-> DefaultBaseUri, key |-> key, token |-> token,
     error |-> <<>>]

\* new Trello('test-key', 'test-token')
TestTrello == Instance(JsStr(ApiKey), JsStr(ApiToken))

\* The calls ids before any of them is invoked.
InitCalls(ids) ==
    /\ pc = [c \in ids |-> "idle"]
    /\ requests = [c \in ids |-> <<>>]
    /\ response = [c \in ids |-> <<>>]
    /\ netError = [c \in ids |-> <<>>]
    /\ delay = [c \in ids |-> <<>>]
    /\ timers = [c \in ids |-> 0]
    /\ limited = [c \in ids |-> 0]
    /\ outcome = [c \in ids |-> Pending]
    /\ inflight = [c \in ids |-> <<>>]

\* Calls of makeRequest itself: no Facade is involved.
NoFacade(ids) ==
    /\ params = [c \in ids |-> <<>>]
    /\ callerOptions = [c \in ids |-> NoOptions]
    /\ trello = TestTrello

Init ==
    /\ args \in [SoloCalls -> Args]
    /\ InitCalls(SoloCalls)
    /\ NoFacade(SoloCalls)
    /\ mock = NoMock

\* fetch(url, fetchOptions): a mock settles the call with its next queued
\* response, decided when fetch is called.
FetchCall(c) ==
    IF mock.on
    THEN /\ mock.next <= Len(mock.script)
         /\ inflight' = [inflight EXCEPT ![c] = <<mock.script[mock.next]>>]
         /\ mock' = [mock EXCEPT !.next = @ + 1]
    ELSE UNCHANGED envVars

\* What fetch may resolve the pending request of call c with: a mock's queued
\* response, any response of a stub's script, or any response at all.
Answers(c) ==
    IF mock.on THEN {inflight[c][1]}
    ELSE IF mock.script # <<>> THEN {mock.script[i] : i \in DOMAIN mock.script}
    ELSE Responses

\* Mutant of Enter: a frame is only entered while no other call waits in its
\* backoff, as under a rate limiter shared by all calls.
EnterGated(c, a) ==
    /\ \A d \in Calls \ {c} : pc[d] # "backoff"
    /\ args' = [args EXCEPT ![c] = a]
    /\ response' = [response EXCEPT ![c] = <<>>]
    /\ delay' = [delay EXCEPT ![c] = <<>>]
    /\ IF BuildThrows(a)
       THEN /\ pc' = [pc EXCEPT ![c] = "done"]
            /\ outcome' = [outcome EXCEPT ![c] = Rejected(InvalidUrlError)]
            /\ UNCHANGED <<requests, envVars>>
       ELSE /\ pc' = [pc EXCEPT ![c] = "awaitFetch"]
            /\ requests' = [requests EXCEPT ![c] = Append(@, BuildRequest(a))]
            /\ FetchCall(c)
            /\ UNCHANGED outcome
    /\ UNCHANGED <<netError, timers, limited>>

\* One frame of makeRequest with arguments a, from its entry to its first
\* await: build the URL and the fetch options (or throw), then call fetch.
Enter(c, a) ==
    /\ args' = [args EXCEPT ![c] = a]
    /\ response' = [response EXCEPT ![c] = <<>>]
    /\ delay' = [delay EXCEPT ![c] = <<>>]
    /\ IF BuildThrows(a)
       THEN /\ pc' = [pc EXCEPT ![c] = "done"]
            /\ outcome' = [outcome EXCEPT ![c] = Rejected(InvalidUrlError)]
            /\ UNCHANGED <<requests, envVars>>
       ELSE /\ pc' = [pc EXCEPT ![c] = "awaitFetch"]
            /\ requests' = [requests EXCEPT ![c] = Append(@, BuildRequest(a))]
            /\ FetchCall(c)
            /\ UNCHANGED outcome
    /\ UNCHANGED <<netError, timers, limited>>

\* The caller calls makeRequest.
Invoke(c) ==
    /\ pc[c] = "idle"
    /\ params[c] = <<>>
    /\ Enter(c, args[c])
    /\ UNCHANGED facadeVars

\* Mutant of FetchResolve: only the first 429 of a call is waited for, the
\* later ones are retried at once.
FetchResolveOneBackoff(c) ==
    /\ pc[c] = "awaitFetch"
    /\ \E r \in Answers(c) :
        /\ r.status = 429 => limited[c] < Max429
        /\ response' = [response EXCEPT ![c] = <<r>>]
        /\ inflight' = [inflight EXCEPT ![c] = <<>>]
        /\ limited' = [limited EXCEPT ![c] = IF r.status = 429 THEN @ + 1 ELSE @]
        /\ CASE Classify(r) = "retry" ->
                  \E n \in Randoms :
                      /\ delay' = [delay EXCEPT ![c] =
                                     IF limited[c] = 0 THEN <<BackoffDelay(n)>> ELSE <<0>>]
                      /\ timers' = [timers EXCEPT ![c] = IF limited[c] = 0 THEN @ + 1 ELSE @]
                      /\ pc' = [pc EXCEPT ![c] = "backoff"]
             [] Classify(r) = "error" ->
                  /\ pc' = [pc EXCEPT ![c] = "awaitText"]
                  /\ UNCHANGED <<delay, timers>>
             [] OTHER ->
                  /\ pc' = [pc EXCEPT ![c] = "awaitJson"]
                  /\ UNCHANGED <<delay, timers>>
    /\ UNCHANGED <<args, requests, netError, outcome, mock, facadeVars>>

\* fetch resolves with a response: lines 54-73 up to the next await.
FetchResolve(c) ==
    /\ pc[c] = "awaitFetch"
    /\ \E r \in Answers(c) :
        /\ r.status = 429 => limited[c] < Max429
        /\ response' = [response EXCEPT ![c] = <<r>>]
        /\ inflight' = [inflight EXCEPT ![c] = <<>>]
        /\ limited' = [limited EXCEPT ![c] = IF r.status = 429 THEN @ + 1 ELSE @]
        /\ CASE Classify(r) = "retry" ->
                  \E n \in Randoms :
                      /\ delay' = [delay EXCEPT ![c] = <<BackoffDelay(n)>>]
                      /\ timers' = [timers EXCEPT ![c] = @ + 1]
                      /\ pc' = [pc EXCEPT ![c] = "backoff"]
             [] Classify(r) = "error" ->
                  /\ pc' = [pc EXCEPT ![c] = "awaitText"]
                  /\ UNCHANGED <<delay, timers>>
             [] OTHER ->
                  /\ pc' = [pc EXCEPT ![c] = "awaitJson"]
                  /\ UNCHANGED <<delay, timers>>
    /\ UNCHANGED <<args, requests, netError, outcome, mock, facadeVars>>

\* Mutant of FetchReject: the transport's error is caught and wrapped in a new one.
FetchRejectWrapped(c) ==
    /\ pc[c] = "awaitFetch"
    /\ ~mock.on
    /\ \E e \in NetErrors :
        /\ netError' = [netError EXCEPT ![c] = <<e>>]
        /\ outcome' = [outcome EXCEPT ![c] =
               Rejected([name |-> "Error", message |-> "Request failed", response |-> <<>>])]
    /\ pc' = [pc EXCEPT ![c] = "done"]
    /\ UNCHANGED <<args, requests, response, delay, timers, limited, envVars, facadeVars>>

\* Mutant of FetchReject: the call rejects with the transport's error and
\* still schedules a retry.
FetchRejectAndRetry(c) ==
    /\ pc[c] = "awaitFetch"
    /\ ~mock.on
    /\ \E e \in NetErrors :
        /\ netError' = [netError EXCEPT ![c] = <<e>>]
        /\ outcome' = [outcome EXCEPT ![c] = Rejected(e)]
    /\ pc' = [pc EXCEPT ![c] = "backoff"]
    /\ delay' = [delay EXCEPT ![c] = <<MIN_REQUEST_DELAY>>]
    /\ timers' = [timers EXCEPT ![c] = @ + 1]
    /\ UNCHANGED <<args, requests, response, limited, envVars, facadeVars>>

\* fetch rejects: the await at line 54 throws and the call rejects.
FetchReject(c) ==
    /\ pc[c] = "awaitFetch"
    /\ ~mock.on
    /\ \E e \in NetErrors :
        /\ netError' = [netError EXCEPT ![c] = <<e>>]
        /\ outcome' = [outcome EXCEPT ![c] = Rejected(e)]
    /\ pc' = [pc EXCEPT ![c] = "done"]
    /\ UNCHANGED <<args, requests, response, delay, timers, limited, envVars, facadeVars>>

\* Mutant of TimerFire: a retry ceiling; past MAX_RETRIES backoffs the call
\* rejects instead of calling itself again.
TimerFireCapped(c) ==
    /\ pc[c] = "backoff"
    /\ IF timers[c] > MAX_RETRIES
       THEN /\ pc' = [pc EXCEPT ![c] = "done"]
            /\ outcome' = [outcome EXCEPT ![c] =
                   Rejected([name |-> "Error", message |-> "Rate limit exceeded",
                             response |-> <<>>])]
            /\ delay' = [delay EXCEPT ![c] = <<>>]
            /\ UNCHANGED <<args, requests, response, netError, timers, limited, envVars>>
       ELSE Enter(c, args[c])
    /\ UNCHANGED facadeVars

\* The timer fires: line 61, the recursive call, whose promise the call adopts.
TimerFire(c) ==
    /\ pc[c] = "backoff"
    /\ Enter(c, RetryArgs(args[c]))
    /\ UNCHANGED facadeVars

\* Mutant of TextResolve: the error also carries the URL of the request, as an
\* ordinary (enumerable) property.
TextResolveWithUrl(c) ==
    /\ pc[c] = "awaitText"
    /\ outcome' = [outcome EXCEPT ![c] =
          Rejected([name |-> "Error", message |-> response[c][1].text,
                    response |-> response[c],
                    url |-> requests[c][Len(requests[c])].url,
                    enumerable |-> {"url"}])]
    /\ pc' = [pc EXCEPT ![c] = "done"]
    /\ UNCHANGED <<args, requests, response, netError, delay, timers, limited,
                   envVars, facadeVars>>

\* response.text() resolves: lines 66-69.
TextResolve(c) ==
    /\ pc[c] = "awaitText"
    /\ outcome' = [outcome EXCEPT ![c] = Rejected(HttpError(response[c][1]))]
    /\ pc' = [pc EXCEPT ![c] = "done"]
    /\ UNCHANGED <<args, requests, response, netError, delay, timers, limited,
                   envVars, facadeVars>>

\* Mutant of JsonSettle: a body that does not parse yields a default value.
JsonSettleDefault(c) ==
    /\ pc[c] = "awaitJson"
    /\ LET r == response[c][1]
       IN  outcome' = [outcome EXCEPT ![c] =
               IF r.json.parses THEN Fulfilled(r.json.val) ELSE Fulfilled("{}")]
    /\ pc' = [pc EXCEPT ![c] = "done"]
    /\ UNCHANGED <<args, requests, response, netError, delay, timers, limited,
                   envVars, facadeVars>>

\* response.json() settles: line 73.
JsonSettle(c) ==
    /\ pc[c] = "awaitJson"
    /\ LET r == response[c][1]
       IN  outcome' = [outcome EXCEPT ![c] =
               IF r.json.parses THEN Fulfilled(r.json.val) ELSE Rejected(ParseError(r))]
    /\ pc' = [pc EXCEPT ![c] = "done"]
    /\ UNCHANGED <<args, requests, response, netError, delay, timers, limited,
                   envVars, facadeVars>>

Next ==
    \E c \in Calls :
        \/ Invoke(c)
        \/ FetchResolve(c)
        \/ FetchReject(c)
        \/ TimerFire(c)
        \/ TextResolve(c)
        \/ JsonSettle(c)

Spec == Init /\ [][Next]_vars

\* The calls of the specification SpecLive: the verbs of the RequestMethod
\* type, every path, the payloads without a body or extra parameter.
LiveArgs ==
    {a \in Args : a.method \in RequestMethod /\ a.options.query = AuthQuery
                    /\ a.options.data = <<>>}

InitLive == Init /\ args \in [SoloCalls -> LiveArgs]

\* The event loop runs every timer that is due.
SpecLive ==
    InitLive /\ [][Next]_vars /\ \A c \in SoloCalls : WF_vars(TimerFire(c))

-----------------------------------------------------------------------------
(* Two calls of makeRequest at a time *)

ConcCalls == {1, 2}

\* The calls of the specification SpecConc.
ConcArgs ==
    {a \in LiveArgs : a.uri = <<"/","t","e","s","t">> /\ WireMethod(a.method) \in {GET, POST}}

\* createMockResponse(data)
MockResponse(data) ==
    [status |-> 200, ok |-> TRUE, text |-> data,
     json |-> [parses |-> TRUE, val |-> data], cooldown |-> <<>>]

\* createErrorResponse(errorMessage, status)
ErrorResponse(errorMessage, status) ==
    [status |-> status, ok |-> FALSE, text |-> errorMessage,
     json |-> [parses |-> FALSE, val |-> errorMessage], cooldown |-> <<>>]

\* createRateLimitResponse()
RateLimitResponse ==
    [status |-> 429, ok |-> FALSE, text |-> "Rate limit exceeded",
     json |-> [parses |-> FALSE, val |-> "response.json is not a function"],
     cooldown |-> <<>>]

\* A stub transport: every request is answered, in no order, with a
\* success, a rate limit or an error.
ConcStub ==
    [on     |-> FALSE,
     script |-> <<MockResponse("{}"), RateLimitResponse, ErrorResponse("Not Found", 404)>>,
     next   |-> 1]

InitConc ==
    /\ args \in [ConcCalls -> ConcArgs]
    /\ InitCalls(ConcCalls)
    /\ NoFacade(ConcCalls)
    /\ mock = ConcStub

SpecConc == InitConc /\ [][Next]_vars

-----------------------------------------------------------------------------
(* makeRequest in JSON mode: the payloads { headers, data?, query } *)

\* The data of a JSON payload: absent, an object, a non-empty string, a
\* number, and the falsy values 0, false, '' and null.
JsonData ==
    { <<>>, <<JsObj("\"a\":1")>>, <<JsStr("text")>>, <<JsNum("42")>>,
      <<JsNum("0")>>, <<JsBool("false")>>, <<JsStr("")>>, <<JsNull>> }

JsonArgs ==
    [method  : {<<"p","o","s","t","j","s","o","n">>, <<"p","u","t","j","s","o","n">>},
     uri     : {<<"/","t","e","s","t">>},
     options : [query : Queries, headers : {<<JsonHeaders>>}, data : JsonData],
     baseUri : {DefaultBaseUri}]

InitJson ==
    /\ args \in [SoloCalls -> JsonArgs]
    /\ InitCalls(SoloCalls)
    /\ NoFacade(SoloCalls)
    /\ mock = NoMock

SpecJson == InitJson /\ [][Next]_vars

-----------------------------------------------------------------------------
(* The query of a request: values of every type, and the URL as a string *)

Array123 == JsArr(<<JsNum("1"), JsNum("2"), JsNum("3")>>)

ArrayWithNull == JsArr(<<JsStr("a"), JsNull, JsStr("b")>>)

\* The values a query parameter is given.
QueryValues ==
    { Array123, ArrayWithNull, JsObj("\"a\":1,\"b\":2"), JsNull, JsUndefined,
      JsBool("true"), JsBool("false"), JsStr("value"), JsNum("42") }

\* The query of the test 'should correctly serialize complex query parameters'.
ComplexQuery ==
    << <<"key", JsStr("key")>>, <<"token", JsStr("token")>>,
       <<"array", Array123>>, <<"object", JsObj("\"a\":1,\"b\":2")>>,
       <<"nullValue", JsNull>>, <<"undefinedValue", JsUndefined>>,
       <<"booleanValue", JsBool("true")>> >>

\* { key: 'k', token: 't', name: 'Card Title' }, keys and values spelled out
\* letter by letter so that the URL can be written out.
CardQuery ==
    << <<<<"k","e","y">>, JsStr(<<"k">>)>>, <<<<"t","o","k","e","n">>, JsStr(<<"t">>)>>,
       <<<<"n","a","m","e">>, JsStr(<<"C","a","r","d"," ","T","i","t","l","e">>)>> >>

\* { key: 'k', token: 't', desc: 'a&b=c' }
DescQuery ==
    << <<<<"k","e","y">>, JsStr(<<"k">>)>>, <<<<"t","o","k","e","n">>, JsStr(<<"t">>)>>,
       <<<<"d","e","s","c">>, JsStr(<<"a","&","b","=","c">>)>> >>

QueryCases ==
    {AuthQuery \o << <<"value", v>> >> : v \in QueryValues}
    \cup {ComplexQuery}

\* The calls of the specification SpecQuery: one in form mode and one in
\* JSON mode for each query.
QueryArgs ==
    [method : {<<"g","e","t">>}, uri : {<<"/","t","e","s","t">>},
     options : [query : QueryCases, headers : {<<>>}, data : {<<>>}],
     baseUri : {DefaultBaseUri}]
    \cup [method : {<<"p","o","s","t","j","s","o","n">>}, uri : {<<"/","t","e","s","t">>},
          options : [query : QueryCases, headers : {<<JsonHeaders>>}, data : {<<>>}],
          baseUri : {DefaultBaseUri}]

\* Mutant of FormEncode: a space is written as %20, as in a path.
PercentEncode(ch) ==
    CASE ch = " " -> <<"%", "2", "0">>
      [] ch = "&" -> <<"%", "2", "6">>
      [] ch = "=" -> <<"%", "3", "D">>
      [] ch = "+" -> <<"%", "2", "B">>
      [] ch = "/" -> <<"%", "2", "F">>
      [] ch = "," -> <<"%", "2", "C">>
      [] OTHER -> <<ch>>

\* The application/x-www-form-urlencoded form of one character, as
\* URLSearchParams writes it: a space as '+', letters and digits as they are,
\* the separators of the URL percent-encoded.
FormEncode(ch) ==
    CASE ch = " " -> <<"+">>
      [] ch = "&" -> <<"%", "2", "6">>
      [] ch = "=" -> <<"%", "3", "D">>
      [] ch = "+" -> <<"%", "2", "B">>
      [] ch = "/" -> <<"%", "2", "F">>
      [] ch = "," -> <<"%", "2", "C">>
      [] OTHER -> <<ch>>

RECURSIVE FormEncodeAll(_)
FormEncodeAll(chars) ==
    IF chars = <<>> THEN <<>> ELSE FormEncode(chars[1]) \o FormEncodeAll(Tail(chars))

\* The search of url.toString(), after the '?': name=value pairs in the
\* order they were appended, with '&' between them.
RECURSIVE SearchString(_)
SearchString(search) ==
    IF search = <<>> THEN <<>>
    ELSE FormEncodeAll(search[1][1]) \o <<"=">> \o FormEncodeAll(search[1][2])
         \o (IF Len(search) = 1 THEN <<>> ELSE <<"&">> \o SearchString(Tail(search)))

InitQuery ==
    /\ args \in [SoloCalls -> QueryArgs]
    /\ InitCalls(SoloCalls)
    /\ NoFacade(SoloCalls)
    /\ mock = NoMock

SpecQuery == InitQuery /\ [][Next]_vars

\* The calls of the specification SpecUrl: the queries that are spelled out
\* letter by letter, in form mode and in JSON mode.
UrlArgs ==
    [method : {<<"g","e","t">>, <<"p","o","s","t">>}, uri : {<<"/","t","e","s","t">>, <<"/","1","/","c","a","r","d","s">>},
     options : [query : {CardQuery, DescQuery}, headers : {<<>>}, data : {<<>>}],
     baseUri : {DefaultBaseUri}]
    \cup [method : {<<"p","o","s","t","j","s","o","n">>}, uri : {<<"/","t","e","s","t">>},
          options : [query : {CardQuery, DescQuery}, headers : {<<JsonHeaders>>},
                     data : {<<>>}],
          baseUri : {DefaultBaseUri}]

InitUrl ==
    /\ args \in [SoloCalls -> UrlArgs]
    /\ InitCalls(SoloCalls)
    /\ NoFacade(SoloCalls)
    /\ mock = NoMock

SpecUrl == InitUrl /\ [][Next]_vars

-----------------------------------------------------------------------------
(* The Facade: class Trello of src/trello.ts *)

\* createQuery() returns a new { key: this.key, token: this.token }.
CreateQuery == << <<"key", trello.key>>, <<"token", trello.token>> >>

\* An object is the sequence of its entries, in property order.
HasKey(entries, k) == \E i \in 1..Len(entries) : entries[i][1] = k

\* obj[k]: the value, if the property is there.
Lookup(entries, k) ==
    IF HasKey(entries, k)
    THEN <<entries[CHOOSE i \in 1..Len(entries) : entries[i][1] = k][2]>>
    ELSE <<>>

\* obj[k] = v: an existing property keeps its place, a new one goes last.
SetKey(entries, k, v) ==
    IF HasKey(entries, k)
    THEN [i \in 1..Len(entries) |-> IF entries[i][1] = k THEN <<k, v>> ELSE entries[i]]
    ELSE Append(entries, <<k, v>>)

\* Object.assign(target, source) and { ...target, ...source }.
RECURSIVE Assign(_, _)
Assign(target, source) ==
    IF source = <<>> THEN target
    ELSE Assign(SetKey(target, source[1][1], source[1][2]), Tail(source))

\* delete obj[k]
RECURSIVE DeleteKey(_, _)
DeleteKey(entries, k) ==
    IF entries = <<>> THEN <<>>
    ELSE IF entries[1][1] = k THEN DeleteKey(Tail(entries), k)
    ELSE <<entries[1]>> \o DeleteKey(Tail(entries), k)

\* typeof v
TypeOf(v) == IF v.t \in {"object", "null"} THEN "object" ELSE v.t

POST_JSON == <<"P","O","S","T","_","J","S","O","N">>

PUT_JSON == <<"P","U","T","_","J","S","O","N">>

POSTJSON == <<"P","O","S","T","J","S","O","N">>

PUTJSON == <<"P","U","T","J","S","O","N">>

\* The requestMethod values given to the generic entry point: the accepted
\* tags in the spellings of the code, the spec, the README and the tests,
\* an unsupported one ('patch') and one that is no string (123).
GenericMethods ==
    { [t |-> "string", s |-> m] :
        m \in { <<"G","E","T">>, <<"g","e","t">>, POST, PUT, DELETE, POST_JSON, PUT_JSON,
                <<"p","o","s","t","_","j","s","o","n">>, POSTJSON, PUTJSON, <<"p","o","s","t","j","s","o","n">>, <<"p","a","t","c","h">> } }
    \cup { [t |-> "number", s |-> <<"1","2","3">>] }

TestData == JsObj("\"name\":\"Test\"")

\* The options given to the generic entry point: none, {}, { someValue },
\* { data, name }, an attempt to override the credentials, a string and null.
GenericOptions ==
    { NoOptions,
      [t |-> "object", entries |-> <<>>],
      [t |-> "object", entries |-> << <<"someValue", JsStr("test")>> >>],
      [t |-> "object", entries |-> << <<"data", TestData>>, <<"name", JsStr("n")>> >>],
      [t |-> "object", entries |-> << <<"key", JsStr("other-key")>>,
                                      <<"token", JsStr("other-token")>> >>],
      [t |-> "string", entries |-> <<>>],
      [t |-> "null", entries |-> <<>>] }

\* The calls of Trello.makeRequest({ requestMethod, path, options }).
GenericParams ==
    [fn : {"makeRequest"}, requestMethod : GenericMethods,
     path : {<<"/","t","e","s","t">>}, options : GenericOptions]

NoMethod == [t |-> "undefined", s |-> <<>>]

\* The extraParams given to addCardWithExtraParams.
ExtraParams ==
    { [t |-> "object", entries |-> <<>>],
      [t |-> "object", entries |-> << <<"pos", JsStr("top")>> >>],
      [t |-> "object", entries |-> << <<"key", JsStr("other-key")>> >>],
      [t |-> "object", entries |-> << <<"token", JsStr("other-token")>>,
                                      <<"name", JsStr("x")>> >>] }

\* The calls of the typed methods: path holds the identifier argument
\* (memberId, boardId, listId) and options the extraParams argument.
TypedParams ==
    [fn : {"getBoards"}, requestMethod : {NoMethod}, path : {<<"m","e">>},
     options : {NoOptions}]
    \cup [fn : {"getListsOnBoard"}, requestMethod : {NoMethod}, path : {<<"b","o","a","r","d","1">>},
          options : {NoOptions}]
    \cup [fn : {"getCardsOnList"}, requestMethod : {NoMethod}, path : {<<"l","i","s","t","1">>},
          options : {NoOptions}]
    \cup [fn : {"addCardWithExtraParams"}, requestMethod : {NoMethod},
          path : {<<"l","i","s","t","1">>}, options : ExtraParams]

FacadeParams == GenericParams \cup TypedParams

TypeErrorOf(msg) == [name |-> "TypeError", message |-> msg, response |-> <<>>]

\* const { requestMethod, path, options = {} } = params
OptionsOrDefault(p) ==
    IF p.options.t = "undefined" THEN [t |-> "object", entries |-> <<>>] ELSE p.options

IsFacadeJson(m) == m = POST_JSON \/ m = PUT_JSON

\* What Trello.makeRequest throws before it calls makeRequest, if anything:
\* the two type checks, and the read of options.data of a null options.
GenericThrows(p) ==
    IF p.requestMethod.t # "string"
    THEN <<TypeErrorOf("requestMethod should be a string")>>
    ELSE IF TypeOf(OptionsOrDefault(p)) # "object"
    THEN <<TypeErrorOf("options should be an object")>>
    ELSE IF IsFacadeJson(p.requestMethod.s) /\ OptionsOrDefault(p).t = "null"
    THEN <<TypeErrorOf("Cannot read properties of null (reading 'data')")>>
    ELSE <<>>

\* const query = { ...options, ...keyTokenObj }
GenericQuery(p) == Assign(OptionsOrDefault(p).entries, CreateQuery)

\* The arguments Trello.makeRequest calls makeRequest with.
GenericArgs(p) ==
    IF IsFacadeJson(p.requestMethod.s)
    THEN [method  |-> p.requestMethod.s,
          uri     |-> p.path,
          options |-> [query   |-> GenericQuery(p),
                       headers |-> <<JsonHeaders>>,
                       data    |-> Lookup(OptionsOrDefault(p).entries, "data")],
          baseUri |-> trello.uri]
    ELSE [method  |-> p.requestMethod.s,
          uri     |-> p.path,
          options |-> [query |-> GenericQuery(p), headers |-> <<>>, data |-> <<>>],
          baseUri |-> trello.uri]

\* The caller's options object after the call: delete options.data in the
\* JSON branch.
OptionsAfter(p) ==
    IF IsFacadeJson(p.requestMethod.s) /\ p.options.t = "object"
    THEN [p.options EXCEPT !.entries = DeleteKey(@, "data")]
    ELSE p.options

FormArgs(method, uri, query) ==
    [method  |-> method,
     uri     |-> uri,
     options |-> [query |-> query, headers |-> <<>>, data |-> <<>>],
     baseUri |-> trello.uri]

\* getBoards({ memberId })
GetBoardsArgs(p) ==
    FormArgs(GET, <<"/","1","/","m","e","m","b","e","r","s","/">> \o p.path \o <<"/","b","o","a","r","d","s">>, CreateQuery)

\* getListsOnBoard(boardId, fields = 'all')
GetListsOnBoardArgs(p) ==
    FormArgs(GET, <<"/","1","/","b","o","a","r","d","s","/">> \o p.path \o <<"/","l","i","s","t","s">>,
             SetKey(CreateQuery, "fields", JsStr("all")))

\* getCardsOnList(listId)
GetCardsOnListArgs(p) ==
    FormArgs(GET, <<"/","1","/","l","i","s","t","s","/">> \o p.path \o <<"/","c","a","r","d","s">>, CreateQuery)

\* addCardWithExtraParams({ name, extraParams, listId })
AddCardWithExtraParamsArgs(p) ==
    FormArgs(POST, <<"/","1","/","c","a","r","d","s">>,
             Assign(SetKey(SetKey(CreateQuery, "name", JsStr("Card Title")),
                           "idList", JsStr("list1")),
                    p.options.entries))

\* The arguments of a typed method that hands makeRequest a data object, and
\* headers or not, next to the query.
DataArgs(method, uri, headers, data) ==
    [method  |-> method,
     uri     |-> uri,
     options |-> [query |-> CreateQuery, headers |-> headers, data |-> <<data>>],
     baseUri |-> trello.uri]

\* The token of the tests, letter by letter: it is part of a path.
ApiTokenChars == <<"t","e","s","t","-","t","o","k","e","n">>

\* addWebhook(description, callbackUrl, idModel)
AddWebhookArgs(p) ==
    DataArgs(POST, <<"/","1","/","t","o","k","e","n","s","/">> \o ApiTokenChars \o <<"/","w","e","b","h","o","o","k","s","/">>, <<>>,
             JsObj("\"description\":\"My Webhook\",\"callbackURL\":\"https://example.com/hook\",\"idModel\":\"board1\""))

\* addLabelToCard(cardId, labelId)
AddLabelToCardArgs(p) ==
    DataArgs(POST, <<"/","1","/","c","a","r","d","s","/">> \o p.path \o <<"/","i","d","L","a","b","e","l","s">>, <<>>,
             JsObj("\"value\":\"label1\""))

\* updateCardPos(cardId, position)
UpdateCardPosArgs(p) ==
    DataArgs(PUT, <<"/","1","/","c","a","r","d","s","/">> \o p.path, <<>>, JsObj("\"pos\":\"top\""))

\* addReactionToAction(actionId, reaction)
AddReactionToActionArgs(p) ==
    DataArgs(POST, <<"/","1","/","a","c","t","i","o","n","s","/">> \o p.path \o <<"/","r","e","a","c","t","i","o","n","s">>, <<JsonHeaders>>,
             JsObj("\"shortName\":\"+1\""))

\* updateCustomFieldOnCard(cardId, fieldId, value)
UpdateCustomFieldOnCardArgs(p) ==
    DataArgs(PUT, <<"/","1","/","c","a","r","d","s","/">> \o p.path \o <<"/","c","u","s","t","o","m","F","i","e","l","d","/","f","i","e","l","d","1","/","i","t","e","m">>,
             <<JsonHeaders>>, JsObj("\"value\":{\"text\":\"x\"}"))

\* The arguments a typed method calls makeRequest with.
MethodArgs(p) ==
    CASE p.fn = "getBoards" -> GetBoardsArgs(p)
      [] p.fn = "getListsOnBoard" -> GetListsOnBoardArgs(p)
      [] p.fn = "getCardsOnList" -> GetCardsOnListArgs(p)
      [] p.fn = "addCardWithExtraParams" -> AddCardWithExtraParamsArgs(p)
      [] p.fn = "addWebhook" -> AddWebhookArgs(p)
      [] p.fn = "addLabelToCard" -> AddLabelToCardArgs(p)
      [] p.fn = "updateCardPos" -> UpdateCardPosArgs(p)
      [] p.fn = "addReactionToAction" -> AddReactionToActionArgs(p)
      [] p.fn = "updateCustomFieldOnCard" -> UpdateCustomFieldOnCardArgs(p)

\* The arguments of a call that has not called makeRequest yet.
NoArgs ==
    [method  |-> <<>>,
     uri     |-> <<>>,
     options |-> [query |-> <<>>, headers |-> <<>>, data |-> <<>>],
     baseUri |-> DefaultBaseUri]

\* Trello.makeRequest(params), up to the first await of makeRequest.
GenericRequest(c) ==
    /\ trello.status = "ok"
    /\ pc[c] = "idle"
    /\ params[c] # <<>>
    /\ params[c][1].fn = "makeRequest"
    /\ LET p == params[c][1]
       IN  IF GenericThrows(p) # <<>>
           THEN /\ pc' = [pc EXCEPT ![c] = "done"]
                /\ outcome' = [outcome EXCEPT ![c] = Rejected(GenericThrows(p)[1])]
                /\ UNCHANGED <<args, requests, response, netError, delay, timers,
                               limited, envVars, callerOptions>>
           ELSE /\ Enter(c, GenericArgs(p))
                /\ callerOptions' = [callerOptions EXCEPT ![c] = OptionsAfter(p)]
    /\ UNCHANGED <<params, trello>>

\* A typed method of the Facade, up to the first await of makeRequest.
FacadeMethod(c) ==
    /\ trello.status = "ok"
    /\ pc[c] = "idle"
    /\ params[c] # <<>>
    /\ params[c][1].fn # "makeRequest"
    /\ Enter(c, MethodArgs(params[c][1]))
    /\ UNCHANGED facadeVars

\* One call of a Facade method, with the options object the caller holds.
InitFacade ==
    /\ trello = TestTrello
    /\ params \in [SoloCalls -> {<<p>> : p \in FacadeParams}]
    /\ callerOptions = [c \in SoloCalls |-> params[c][1].options]
    /\ args = [c \in SoloCalls |-> NoArgs]
    /\ InitCalls(SoloCalls)
    /\ mock = NoMock

NextFacade ==
    \E c \in Calls :
        \/ GenericRequest(c)
        \/ FacadeMethod(c)
        \/ FetchResolve(c)
        \/ FetchReject(c)
        \/ TimerFire(c)
        \/ TextResolve(c)
        \/ JsonSettle(c)

SpecFacade == InitFacade /\ [][NextFacade]_vars

-----------------------------------------------------------------------------
(* A batch of Facade calls: Promise.all([...]) against a mock's queue *)

BatchCalls == {1, 2, 3}

\* trello.getBoards({ memberId: 'me' }), trello.getListsOnBoard('board1'),
\* trello.getCardsOnList('list1'), in the order the array lists them.
BatchParams ==
    << [fn |-> "getBoards", requestMethod |-> NoMethod, path |-> <<"m","e">>,
        options |-> NoOptions],
       [fn |-> "getListsOnBoard", requestMethod |-> NoMethod, path |-> <<"b","o","a","r","d","1">>,
        options |-> NoOptions],
       [fn |-> "getCardsOnList", requestMethod |-> NoMethod, path |-> <<"l","i","s","t","1">>,
        options |-> NoOptions] >>

\* The bodies queued for the calls, in call order.
BatchData == << "[{\"id\":\"board1\"}]", "[{\"id\":\"list1\"}]", "[{\"id\":\"card1\"}]" >>

\* The queue of the mock: the body of each call in call order, with one
\* rate limit response queued ahead of the body of call p.
BatchScript(p) ==
    [i \in 1..(Len(BatchData) + 1) |->
        IF i < p THEN MockResponse(BatchData[i])
        ELSE IF i = p THEN RateLimitResponse
        ELSE MockResponse(BatchData[i - 1])]

InitBatch ==
    /\ trello = TestTrello
    /\ params = [c \in BatchCalls |-> <<BatchParams[c]>>]
    /\ callerOptions = [c \in BatchCalls |-> NoOptions]
    /\ args = [c \in BatchCalls |-> NoArgs]
    /\ InitCalls(BatchCalls)
    /\ mock \in {[on |-> TRUE, script |-> BatchScript(p), next |-> 1] : p \in BatchCalls}

\* Mutant of InvokeAll: the calls reach fetch in the reverse of call order.
InvokeAllReversed ==
    /\ \A c \in Calls :
          /\ pc[c] = "idle"
          /\ params[c] # <<>>
          /\ params[c][1].fn # "makeRequest"
          /\ ~BuildThrows(MethodArgs(params[c][1]))
    /\ trello.status = "ok"
    /\ mock.on
    /\ mock.next + Cardinality(Calls) - 1 <= Len(mock.script)
    /\ args' = [c \in Calls |-> MethodArgs(params[c][1])]
    /\ pc' = [c \in Calls |-> "awaitFetch"]
    /\ requests' = [c \in Calls |->
                      Append(requests[c], BuildRequest(MethodArgs(params[c][1])))]
    /\ inflight' = [c \in Calls |-> <<mock.script[mock.next + Cardinality(Calls) - c]>>]
    /\ mock' = [mock EXCEPT !.next = @ + Cardinality(Calls)]
    /\ response' = [c \in Calls |-> <<>>]
    /\ delay' = [c \in Calls |-> <<>>]
    /\ UNCHANGED <<netError, timers, limited, outcome, facadeVars>>

\* The array given to Promise.all is evaluated in one go: each typed method
\* runs, in call order, up to the await of its fetch (FacadeMethod and Enter
\* for call 1, then for call 2, ...), before any response is looked at.
InvokeAll ==
    /\ \A c \in Calls :
          /\ pc[c] = "idle"
          /\ params[c] # <<>>
          /\ params[c][1].fn # "makeRequest"
          /\ ~BuildThrows(MethodArgs(params[c][1]))
    /\ trello.status = "ok"
    /\ mock.on
    /\ mock.next + Cardinality(Calls) - 1 <= Len(mock.script)
    /\ args' = [c \in Calls |-> MethodArgs(params[c][1])]
    /\ pc' = [c \in Calls |-> "awaitFetch"]
    /\ requests' = [c \in Calls |->
                      Append(requests[c], BuildRequest(MethodArgs(params[c][1])))]
    /\ inflight' = [c \in Calls |-> <<mock.script[mock.next + c - 1]>>]
    /\ mock' = [mock EXCEPT !.next = @ + Cardinality(Calls)]
    /\ response' = [c \in Calls |-> <<>>]
    /\ delay' = [c \in Calls |-> <<>>]
    /\ UNCHANGED <<netError, timers, limited, outcome, facadeVars>>

NextBatch ==
    \/ InvokeAll
    \/ \E c \in Calls :
        \/ FetchResolve(c)
        \/ TimerFire(c)
        \/ JsonSettle(c)

SpecBatch == InitBatch /\ [][NextBatch]_vars

-----------------------------------------------------------------------------
(* The typed methods that hand makeRequest a data object with a plain verb *)

DataMethods ==
    {"addWebhook", "addLabelToCard", "updateCardPos", "addReactionToAction",
     "updateCustomFieldOnCard"}

\* One call of each of them: path holds the identifier argument.
DataParams ==
    [fn : {"addWebhook"}, requestMethod : {NoMethod}, path : {<<"b","o","a","r","d","1">>},
     options : {NoOptions}]
    \cup [fn : {"addLabelToCard", "updateCardPos", "updateCustomFieldOnCard"},
          requestMethod : {NoMethod}, path : {<<"c","a","r","d","1">>}, options : {NoOptions}]
    \cup [fn : {"addReactionToAction"}, requestMethod : {NoMethod},
          path : {<<"a","c","t","i","o","n","1","2","3">>}, options : {NoOptions}]

InitData ==
    /\ trello = TestTrello
    /\ params \in [SoloCalls -> {<<p>> : p \in DataParams}]
    /\ callerOptions = [c \in SoloCalls |-> NoOptions]
    /\ args = [c \in SoloCalls |-> NoArgs]
    /\ InitCalls(SoloCalls)
    /\ mock = NoMock

NextData ==
    \E c \in Calls :
        \/ FacadeMethod(c)
        \/ FetchResolve(c)
        \/ FetchReject(c)
        \/ TimerFire(c)
        \/ TextResolve(c)
        \/ JsonSettle(c)

SpecData == InitData /\ [][NextData]_vars

-----------------------------------------------------------------------------
(* The constructor of the Facade, and calls on the instance it builds *)

\* A configuration object { apiKey?, apiToken? }.
Config(entries) == [t |-> "object", entries |-> entries]

\* The arguments of new Trello(keyOrConfig, token): key and token strings,
\* empty or missing ones, and configuration objects with both, one or empty
\* credentials.
ConstructorArgs ==
    [keyOrConfig : {JsStr(ApiKey), JsStr("other-key"), JsStr(""), JsUndefined},
     token : {JsStr(ApiToken), JsStr("other-token"), JsStr(""), JsUndefined}]
    \cup [keyOrConfig :
            { Config(<< <<"apiKey", JsStr(ApiKey)>>, <<"apiToken", JsStr(ApiToken)>> >>),
              Config(<< <<"apiKey", JsStr(ApiKey)>> >>),
              Config(<< <<"apiKey", JsStr("")>>, <<"apiToken", JsStr(ApiToken)>> >>),
              Config(<< <<"apiKey", JsStr(ApiKey)>>, <<"apiToken", JsStr("")>> >>),
              Config(<<>>) },
          token : {JsUndefined}]

ErrorOf(name, msg) == [name |-> name, message |-> msg, response |-> <<>>]

\* What the constructor throws, if anything.
ConstructorThrows(a) ==
    IF a.keyOrConfig.t = "string"
    THEN IF ~Truthy(<<a.token>>)
         THEN <<ErrorOf("Error", "Token is required when providing key as a string")>>
         ELSE <<>>
    ELSE IF a.keyOrConfig.t # "object"
    THEN <<ErrorOf("TypeError", "Cannot read properties of undefined (reading 'apiKey')")>>
    ELSE IF \/ ~Truthy(Lookup(a.keyOrConfig.entries, "apiKey"))
            \/ ~Truthy(Lookup(a.keyOrConfig.entries, "apiToken"))
    THEN <<ErrorOf("Error", "apiKey and apiToken are required in the configuration object")>>
    ELSE <<>>

\* The instance the constructor builds when it does not throw.
Constructed(a) ==
    IF a.keyOrConfig.t = "string"
    THEN Instance(a.keyOrConfig, a.token)
    ELSE Instance(Lookup(a.keyOrConfig.entries, "apiKey")[1],
                  Lookup(a.keyOrConfig.entries, "apiToken")[1])

\* new Trello(keyOrConfig, token)
Construct ==
    /\ trello.status = "none"
    /\ \E a \in ConstructorArgs :
          trello' = IF ConstructorThrows(a) # <<>>
                    THEN [NoInstance EXCEPT !.status = "thrown",
                                            !.error = ConstructorThrows(a)]
                    ELSE Constructed(a)
    /\ UNCHANGED <<args, pc, requests, response, netError, delay, timers, limited,
                   outcome, envVars, params, callerOptions>>

InstanceCalls == {1, 2}

\* What the first call on the instance is given: a card with an extra
\* parameter, or the generic entry point with the path of the tests.
FirstParams ==
    { [fn |-> "addCardWithExtraParams", requestMethod |-> NoMethod, path |-> <<"l","i","s","t","1">>,
       options |-> [t |-> "object", entries |-> << <<"pos", JsStr("top")>> >>]],
      [fn |-> "makeRequest", requestMethod |-> [t |-> "string", s |-> GET],
       path |-> <<"s","o","m","e","P","a","t","h">>,
       options |-> [t |-> "object", entries |-> << <<"someValue", JsStr("test")>> >>]] }

\* What the second call is given: a typed method, or the generic entry
\* point with a path that continues the host name.
SecondParams ==
    { [fn |-> "getBoards", requestMethod |-> NoMethod, path |-> <<"m","e">>,
       options |-> NoOptions],
      [fn |-> "makeRequest", requestMethod |-> [t |-> "string", s |-> GET],
       path |-> <<".","e","x","a","m","p","l","e",".","c","o","m","/","x">>, options |-> NoOptions] }

\* A stub transport that answers with a success, a rate limit or the error
\* response of the tests.
InstanceStub ==
    [on     |-> FALSE,
     script |-> <<MockResponse("{}"), RateLimitResponse, ErrorResponse("Error", 400)>>,
     next   |-> 1]

InitInstance ==
    /\ trello = NoInstance
    /\ params \in { <<(<<p>>), (<<q>>)>> : p \in FirstParams, q \in SecondParams }
    /\ callerOptions = [c \in InstanceCalls |-> params[c][1].options]
    /\ args = [c \in InstanceCalls |-> NoArgs]
    /\ InitCalls(InstanceCalls)
    /\ mock = InstanceStub

NextInstance ==
    \/ Construct
    \/ \E c \in Calls :
        \/ GenericRequest(c)
        \/ FacadeMethod(c)
        \/ FetchResolve(c)
        \/ FetchReject(c)
        \/ TimerFire(c)
        \/ TextResolve(c)
        \/ JsonSettle(c)

SpecInstance == InitInstance /\ [][NextInstance]_vars

-----------------------------------------------------------------------------
(* Properties *)

IsRateLimit(c) == response[c] # <<>> /\ response[c][1].status = 429

\* The frame of call c received a response that is not a 429 and has ok = false.
IsHttpFailure(c) ==
    response[c] # <<>> /\ response[c][1].status # 429 /\ ~response[c][1].ok

\* The frame of call c received a response that is not a 429 and has ok = true.
IsSuccess(c) ==
    response[c] # <<>> /\ response[c][1].status # 429 /\ response[c][1].ok

C2_Safety ==
    \A c \in Calls :
        /\ outcome[c].state # "pending" =>
              \/ netError[c] # <<>>
              \/ response[c] # <<>> /\ response[c][1].status # 429
              \/ requests[c] = <<>> /\ outcome[c] = Rejected(InvalidUrlError)
        /\ IsRateLimit(c) =>
              /\ outcome[c].state = "pending"
              /\ netError[c] = <<>>
              /\ pc[c] = "backoff"
              /\ Len(requests[c]) = limited[c]

C3_GivesUpAfterMaxRetries ==
    \A c \in Calls :
        limited[c] > MAX_RETRIES =>
            /\ outcome[c].state = "rejected"
            /\ outcome[c].error[1].message = "Rate limit exceeded"
            /\ Len(requests[c]) <= MAX_RETRIES + 1

\* C4: a response with ok = false and a status other than 429 rejects the
\* call with an error whose message is the body text and whose response is
\* that response object; no request follows it and no backoff is scheduled,
\* so a call whose first response it is has invoked the transport once.
C4_HttpErrorRejects ==
    \A c \in Calls :
        IsHttpFailure(c) =>
            /\ pc[c] \in {"awaitText", "done"}
            /\ pc[c] = "awaitText" => outcome[c].state = "pending"
            /\ pc[c] = "done" =>
                  /\ outcome[c].state = "rejected"
                  /\ outcome[c].error[1].message = response[c][1].text
                  /\ outcome[c].error[1].response = response[c]
            /\ Len(requests[c]) = limited[c] + 1
            /\ timers[c] = limited[c]
            /\ delay[c] = <<>>

C4_Witness ==
    \E c \in Calls :
        /\ pc[c] = "done"
        /\ IsHttpFailure(c)
        /\ response[c][1].status = 404
        /\ outcome[c].state = "rejected"
        /\ Len(requests[c]) = 1
        /\ timers[c] = 0

\* C5: a response with ok = true (status not 429) whose body parses resolves
\* the call to exactly the parsed value; every request of the call carries
\* the requested path and, for the verbs of the RequestMethod type, the
\* requested method; a call whose first response it is has invoked the
\* transport once.
C5_SuccessPassthrough ==
    \A c \in Calls :
        (pc[c] = "done" /\ IsSuccess(c) /\ response[c][1].json.parses) =>
            /\ outcome[c] = Fulfilled(response[c][1].json.val)
            /\ Len(requests[c]) = limited[c] + 1
            /\ \A i \in 1..Len(requests[c]) :
                  /\ StartsWith(args[c].uri, <<"/">>) =>
                        requests[c][i].url.pathname = args[c].uri
                  /\ args[c].method \in RequestMethod =>
                        requests[c][i].method = BaseVerbOf(args[c].method)

C5_Witness ==
    \E c \in Calls :
        /\ pc[c] = "done"
        /\ IsSuccess(c)
        /\ outcome[c] = Fulfilled("{}")
        /\ limited[c] = 0
        /\ Len(requests[c]) = 1
        /\ args[c].method = <<"g","e","t">>
        /\ requests[c][1].method = GET

\* C6: when fetch rejects, the call rejects with that same error; no request
\* follows and no backoff is scheduled, so a call whose first request failed
\* has invoked the transport once.
C6_NetworkErrorPropagates ==
    \A c \in Calls :
        netError[c] # <<>> =>
            /\ pc[c] = "done"
            /\ outcome[c] = Rejected(netError[c][1])
            /\ Len(requests[c]) = limited[c] + 1
            /\ timers[c] = limited[c]
            /\ delay[c] = <<>>

C6_Witness ==
    \E c \in Calls :
        /\ netError[c] # <<>>
        /\ outcome[c].state = "rejected"
        /\ Len(requests[c]) = 1
        /\ timers[c] = 0

\* C7: a response that indicates success but whose body fails to parse as
\* JSON rejects the call: it is neither resolved with a default value nor
\* followed by another request.
C7_DecodeErrorRejects ==
    \A c \in Calls :
        (pc[c] = "done" /\ IsSuccess(c) /\ ~response[c][1].json.parses) =>
            /\ outcome[c].state = "rejected"
            /\ outcome[c].value = <<>>
            /\ Len(requests[c]) = limited[c] + 1
            /\ timers[c] = limited[c]

C7_Witness ==
    \E c \in Calls :
        /\ pc[c] = "done"
        /\ IsSuccess(c)
        /\ ~response[c][1].json.parses
        /\ outcome[c].state = "rejected"

\* C8: every request a call issues after a 429 is identical to its first one
\* (wire method, URL with its query in order, headers, body), and no step of
\* makeRequest changes the arguments it was called with.
C8_RetryIsIdentical ==
    /\ [](\A c \in Calls : \A i \in 1..Len(requests[c]) :
              requests[c][i] = requests[c][1])
    /\ [][\A c \in Calls : args'[c] = args[c]]_vars

C8_Witness ==
    \E c \in Calls :
        /\ Len(requests[c]) >= 2
        /\ requests[c][2].body # <<>>
        /\ requests[c][2].method = POST
        /\ Len(requests[c][2].url.search) = 2

\* C9: every backoff delay is a number of milliseconds d with
\* MIN_REQUEST_DELAY <= d < MAX_REQUEST_DELAY, whatever Math.random() returned.
C9_DelayInWindow ==
    \A c \in Calls :
        /\ pc[c] = "backoff" => delay[c] # <<>>
        /\ delay[c] # <<>> =>
              /\ delay[c][1] \in Int
              /\ MIN_REQUEST_DELAY <= delay[c][1]
              /\ delay[c][1] < MAX_REQUEST_DELAY

C9_Witness ==
    \E c \in Calls :
        /\ pc[c] = "backoff"
        /\ delay[c] = <<BackoffDelay(RandomScale - 1)>>

\* C10 as stated: for every accepted verb, in any letter case, the method
\* sent on the wire is the base verb in upper case.
C10_WireMethodIsBaseVerb ==
    \A c \in Calls : \A i \in 1..Len(requests[c]) :
        /\ requests[c][i].method \in BaseVerbs
        /\ requests[c][i].method = BaseVerbOf(args[c].method)

\* The keys of a query, in order.
QueryKeys(q) == [i \in 1..Len(q) |-> q[i][1]]

SearchKeys(req) == [i \in 1..Len(req.url.search) |-> req.url.search[i][1]]

\* C11 as stated: in JSON mode with a payload {headers, data, query} the
\* request carries the given headers, its body is JSON.stringify(data)
\* whenever a data value is provided, whatever that value is, there is no
\* body when data is absent, and every key of query is a search parameter.
C11_JsonBodyWheneverDataProvided ==
    \A c \in Calls : \A i \in 1..Len(requests[c]) :
        LET a == args[c]
            req == requests[c][i]
        IN  IsJsonMode(a.method) =>
              /\ req.headers = a.options.headers
              /\ a.options.data # <<>> => req.body = <<JsonStringify(a.options.data[1])>>
              /\ a.options.data = <<>> => req.body = <<>>
              /\ SearchKeys(req) = QueryKeys(a.options.query)

\* The call c went through the generic entry point Trello.makeRequest.
IsGenericCall(c) == params[c] # <<>> /\ params[c][1].fn = "makeRequest"

\* The call c went through a Facade method and has started.
IsFacadeCall(c) == params[c] # <<>> /\ pc[c] # "idle"

\* The method tags of the JSON variants, as the spec and the README spell them.
JsonTags == {POST_JSON, PUT_JSON, POSTJSON, PUTJSON}

\* C12 as stated: a call of the generic entry point with a JSON method tag
\* and options.data = D issues a request, and every request it issues has
\* the base verb as wire method, the header Content-Type: application/json
\* and the body JSON.stringify(D).
C12_GenericJsonTagSendsJson ==
    \A c \in Calls :
        (/\ IsGenericCall(c)
         /\ pc[c] # "idle"
         /\ params[c][1].requestMethod.s \in JsonTags
         /\ params[c][1].options.t = "object"
         /\ HasKey(params[c][1].options.entries, "data")) =>
            /\ Len(requests[c]) >= 1
            /\ \A i \in 1..Len(requests[c]) :
                  /\ requests[c][i].method = BaseVerbOf(params[c][1].requestMethod.s)
                  /\ requests[c][i].headers = <<JsonHeaders>>
                  /\ requests[c][i].body =
                        <<JsonStringify(Lookup(params[c][1].options.entries, "data")[1])>>

\* The method tags the spec lists as accepted.
AcceptedTags == {GET, POST, PUT, DELETE, POST_JSON, PUT_JSON}

UnsupportedMethodError ==
    [name |-> "Error", message |-> "Unsupported requestMethod", response |-> <<>>]

\* C13 as stated: a call of the generic entry point whose requestMethod is a
\* string outside the accepted tags (in any letter case), with options that
\* are an object, rejects with an 'Unsupported requestMethod' error and
\* issues no request.
C13_UnsupportedMethodRejected ==
    \A c \in Calls :
        (/\ IsGenericCall(c)
         /\ pc[c] # "idle"
         /\ params[c][1].requestMethod.t = "string"
         /\ ToUpperCase(params[c][1].requestMethod.s) \notin AcceptedTags
         /\ OptionsOrDefault(params[c][1]).t = "object") =>
            /\ outcome[c] = Rejected(UnsupportedMethodError)
            /\ requests[c] = <<>>

\* C14 as stated: a call of the generic entry point whose requestMethod is
\* not a string, or whose options is not an object (a string, or null),
\* rejects with a TypeError and issues no request.
C14_TypeErrorsBeforeTransport ==
    \A c \in Calls :
        (/\ IsGenericCall(c)
         /\ pc[c] # "idle"
         /\ \/ params[c][1].requestMethod.t # "string"
            \/ OptionsOrDefault(params[c][1]).t # "object") =>
            /\ pc[c] = "done"
            /\ outcome[c].state = "rejected"
            /\ outcome[c].error[1].name = "TypeError"
            /\ requests[c] = <<>>

\* The values of the search parameter k of a request, in order.
SearchValues(req, k) ==
    SelectSeq(req.url.search, LAMBDA e : e[1] = k)

\* C15 as stated: every request of every Facade call has exactly one search
\* parameter key and one search parameter token, with the credentials of the
\* instance as values.
C15_CredentialsAlwaysSent ==
    \A c \in Calls : IsFacadeCall(c) =>
        \A i \in 1..Len(requests[c]) :
            /\ SearchValues(requests[c][i], "key") = << <<"key", ApiKey>> >>
            /\ SearchValues(requests[c][i], "token") = << <<"token", ApiToken>> >>

\* C18 as stated: after a call of the generic entry point, for every request
\* method, the options object of the caller holds the keys and values it had
\* before the call.
C18_CallerOptionsUnchanged ==
    \A c \in Calls : IsGenericCall(c) => callerOptions[c] = params[c][1].options

\* The same call with requestMethod in upper case.
UpperCased(p) == [p EXCEPT !.requestMethod.s = ToUpperCase(@)]

\* C19 as stated: a call of the generic entry point with an accepted tag in
\* any letter case issues the requests that the same call with the tag in
\* upper case issues.
C19_MethodCaseInsensitive ==
    \A c \in Calls :
        (/\ IsGenericCall(c)
         /\ params[c][1].requestMethod.t = "string"
         /\ ToUpperCase(params[c][1].requestMethod.s) \in AcceptedTags
         /\ OptionsOrDefault(params[c][1]).t = "object") =>
            \A i \in 1..Len(requests[c]) :
                requests[c][i] = BuildRequest(GenericArgs(UpperCased(params[c][1])))

\* C20 as stated: while a call waits after a 429 response whose headers
\* recommend a cooldown, the delay of its timer covers that cooldown.
C20_WaitIsHeaderCooldown ==
    \A c \in Calls :
        (pc[c] = "backoff" /\ response[c] # <<>> /\ response[c][1].cooldown # <<>>) =>
            delay[c] # <<>> /\ delay[c][1] >= response[c][1].cooldown[1]

\* The variables of call c: the locals of its frames of makeRequest, its
\* pending fetch and timer, and the promise it returned.
CallState(c) ==
    <<args[c], pc[c], requests[c], response[c], netError[c], delay[c], timers[c],
      limited[c], outcome[c], inflight[c], params[c], callerOptions[c]>>

\* The next step of call d can be taken.
CanStep(d) ==
    /\ pc[d] = "idle" => ENABLED Invoke(d)
    /\ pc[d] = "awaitFetch" => ENABLED FetchResolve(d)
    /\ pc[d] = "backoff" => ENABLED TimerFire(d)
    /\ pc[d] = "awaitText" => ENABLED TextResolve(d)
    /\ pc[d] = "awaitJson" => ENABLED JsonSettle(d)

\* C16: while a call waits in its backoff, every other call can take its next
\* step, whether it has yet to start, is in flight or waits itself; and every
\* step is the step of one call, which leaves the variables of all the other
\* calls as they are.
C16_BackoffIsLocal ==
    /\ [](\A c \in Calls : pc[c] = "backoff" => \A d \in Calls \ {c} : CanStep(d))
    /\ [][\E c \in Calls : \A d \in Calls \ {c} : CallState(d)' = CallState(d)]_vars

\* Call 1 waits in its backoff, and call 2 has run to a fulfilled promise.
C16_Witness ==
    /\ pc[1] = "backoff"
    /\ 2 \in Calls
    /\ pc[2] = "done"
    /\ outcome[2].state = "fulfilled"
    /\ Len(requests[2]) >= 1

\* The sum of f[1], ..., f[n].
RECURSIVE SumTo(_, _)
SumTo(f, n) == IF n = 0 THEN 0 ELSE f[n] + SumTo(f, n - 1)

\* The transport invocations and the backoffs of all the calls together.
TotalRequests == SumTo([c \in Calls |-> Len(requests[c])], Cardinality(Calls))

TotalBackoffs == SumTo(timers, Cardinality(Calls))

AllDone == \A c \in Calls : pc[c] = "done"

\* The place in the queue of the one rate limit response.
LimitedAt == CHOOSE i \in DOMAIN mock.script : mock.script[i].status = 429

\* The response queued for call c: the c-th of the queue, the rate limit
\* response not counted.
QueuedFor(c) == IF c < LimitedAt THEN mock.script[c] ELSE mock.script[c + 1]

TakenBy(c) ==
    IF c = LimitedAt THEN mock.script[Len(mock.script)] ELSE mock.script[c]

Holds(k, v, cred) ==
    CASE k = "message" -> v = cred
      [] k = "response" -> v # <<>> /\ v[1].text = cred
      [] k = "url" -> \E i \in 1..Len(v.search) : v.search[i][2] = cred
      [] OTHER -> FALSE

\* C21: when a Facade call rejects on an HTTP failure, no property of the
\* JSON serialization of the error holds the key or the token of the
\* instance, whatever they are.
C21_SerializedErrorHidesCredentials ==
    \A c \in Calls :
        (params[c] # <<>> /\ pc[c] = "done" /\ IsHttpFailure(c)) =>
            /\ outcome[c].state = "rejected"
            /\ LET json == JsonStringifyError(outcome[c].error[1])
               IN  \A k \in DOMAIN json :
                      /\ ~Holds(k, json[k], JsString(trello.key))
                      /\ ~Holds(k, json[k], JsString(trello.token))

\* A Facade call on an instance with credentials of its own sent them in its
\* request and was rejected on an HTTP failure.
C21_Witness ==
    \E c \in Calls :
        /\ params[c] # <<>>
        /\ pc[c] = "done"
        /\ IsHttpFailure(c)
        /\ outcome[c].state = "rejected"
        /\ trello.key = JsStr("other-key")
        /\ trello.token = JsStr("other-token")
        /\ Holds("url", requests[c][1].url, "other-key")
        /\ Holds("url", requests[c][1].url, "other-token")

\* The string the claim gives for a query value, with the given string for
\* undefined.
StatedString(v, undefinedAs) ==
    CASE v.t = "array" /\ v = Array123 -> "1,2,3"
      [] v.t = "array" /\ v = ArrayWithNull -> "a,,b"
      [] v.t = "object" -> "[object Object]"
      [] v = JsBool("true") -> "true"
      [] v = JsBool("false") -> "false"
      [] v.t = "null" -> "null"
      [] v.t = "undefined" -> undefinedAs
      [] OTHER -> v.s

\* Every entry of the query of call c is, in every request of the call, a
\* search parameter of the same name whose value is the stated string.
QuerySentAs(c, undefinedAs) ==
    \A i \in 1..Len(requests[c]) :
        LET q == args[c].options.query
            search == requests[c][i].url.search
        IN  /\ Len(search) = Len(q)
            /\ \A j \in 1..Len(q) :
                  /\ search[j][1] = q[j][1]
                  /\ search[j][2] = StatedString(q[j][2], undefinedAs)

\* C22 as stated: in both modes an array is sent as its elements joined by
\* commas, an object as '[object Object]', a boolean as 'true' or 'false',
\* null as 'null' and undefined as the empty string, under its key.
C22_UndefinedSentAsEmptyString ==
    \A c \in Calls : QuerySentAs(c, "")

\* C22, amended: as stated, but undefined is sent as the string 'undefined'.
C22_ValuesSentAsStrings ==
    \A c \in Calls : QuerySentAs(c, "undefined")

\* The query of the test went out, in form mode and in JSON mode.
C22_Witness ==
    \E c \in Calls :
        /\ args[c].options.query = ComplexQuery
        /\ Len(requests[c]) >= 1
        /\ requests[c][1].url.search[3] = <<"array", "1,2,3">>
        /\ requests[c][1].url.search[5] = <<"nullValue", "null">>
        /\ requests[c][1].url.search[6] = <<"undefinedValue", "undefined">>

TotalLimited == SumTo(limited, Cardinality(Calls))

\* The calls that reached the transport, and those of them that wait in
\* their backoff for a retry that is yet to be issued.
Reached == {c \in Calls : Len(requests[c]) >= 1}

Waiting == {c \in Calls : pc[c] = "backoff"}

\* C24: a call that has issued its first request and nothing else has set no
\* timer, whatever the other calls have met; each call has set one timer per
\* 429 it received; and the transport invocations of all the calls are one
\* per call that reached the transport plus one per 429 received, the retries
\* still waiting for their timer not yet counted.
C24_BackoffPerCallPer429 ==
    /\ \A c \in Calls :
          (Len(requests[c]) = 1 /\ pc[c] = "awaitFetch") =>
              timers[c] = 0 /\ delay[c] = <<>> /\ limited[c] = 0
    /\ \A c \in Calls : timers[c] = limited[c]
    /\ TotalBackoffs = TotalLimited
    /\ TotalRequests = Cardinality(Reached) + TotalLimited - Cardinality(Waiting)
    /\ AllDone => TotalRequests = Cardinality(Reached) + TotalLimited

\* Call 2 has just issued its first request while call 1, rate limited
\* twice, waits in its backoff.
C24_Witness ==
    /\ Cardinality(Calls) = 2
    /\ pc[1] = "backoff"
    /\ limited[1] = 2
    /\ pc[2] = "awaitFetch"
    /\ Len(requests[2]) = 1
    /\ timers[2] = 0

\* C25 as stated: the delay before the second transport invocation of a call
\* is strictly greater than 500 ms and strictly less than 7000 ms.
C25_DelayStrictlyInside ==
    \A c \in Calls :
        (pc[c] = "backoff" /\ limited[c] = 1) =>
            /\ delay[c] # <<>>
            /\ MIN_REQUEST_DELAY < delay[c][1]
            /\ delay[c][1] < MAX_REQUEST_DELAY

\* C25, amended: the delay before the second transport invocation is at
\* least 500 ms and strictly less than 7000 ms, and 500 ms itself is a delay
\* the first 429 of a call can be followed by (Math.random() returning 0).
C25_DelayFromMinimum ==
    \A c \in Calls :
        /\ (pc[c] = "backoff" /\ limited[c] = 1) =>
              /\ delay[c] # <<>>
              /\ MIN_REQUEST_DELAY <= delay[c][1]
              /\ delay[c][1] < MAX_REQUEST_DELAY
        /\ (pc[c] = "awaitFetch" /\ limited[c] = 0 /\ ~mock.on) =>
              ENABLED (FetchResolve(c) /\ delay'[c] = <<MIN_REQUEST_DELAY>>)

\* A call waits exactly the minimum before its second transport invocation.
C25_Witness ==
    \E c \in Calls :
        /\ pc[c] = "backoff"
        /\ limited[c] = 1
        /\ Len(requests[c]) = 1
        /\ delay[c] = <<MIN_REQUEST_DELAY>>

\* The call c met a failure: the Facade or the URL constructor threw, fetch
\* rejected, the response was an HTTP failure whose text was read, or the
\* body of a success did not parse.
MetFailure(c) ==
    \/ pc[c] = "done" /\ requests[c] = <<>>
    \/ netError[c] # <<>>
    \/ pc[c] = "done" /\ IsHttpFailure(c)
    \/ pc[c] = "done" /\ IsSuccess(c) /\ ~response[c][1].json.parses

\* C26: a call is settled exactly when it is done, as fulfilled with a value
\* or as rejected with an error and never both; a call that met a failure is
\* rejected; and once a call is settled no step changes its outcome, issues a
\* request for it or sets a timer for it.
C26_OneTerminalOutcome ==
    /\ [](\A c \in Calls :
            /\ pc[c] = "done" <=> outcome[c].state # "pending"
            /\ outcome[c].state = "pending" =>
                  outcome[c].value = <<>> /\ outcome[c].error = <<>>
            /\ outcome[c].state = "fulfilled" =>
                  outcome[c].value # <<>> /\ outcome[c].error = <<>>
            /\ outcome[c].state = "rejected" =>
                  outcome[c].value = <<>> /\ outcome[c].error # <<>>
            /\ MetFailure(c) => outcome[c].state = "rejected")
    /\ [][\A c \in Calls :
            outcome[c].state # "pending" =>
                /\ outcome'[c] = outcome[c]
                /\ requests'[c] = requests[c]
                /\ timers'[c] = timers[c]
                /\ pc'[c] = "done"]_vars

\* A call was rate limited, retried, and then rejected on an HTTP failure.
C26_Witness ==
    \E c \in Calls :
        /\ pc[c] = "done"
        /\ outcome[c].state = "rejected"
        /\ IsHttpFailure(c)
        /\ limited[c] = 1
        /\ Len(requests[c]) = 2
        /\ timers[c] = 1

C28_DataOnlyInBody ==
    \A c \in Calls :
        (/\ IsGenericCall(c)
         /\ IsFacadeJson(params[c][1].requestMethod.s)
         /\ params[c][1].options.t = "object") =>
            \A i \in 1..Len(requests[c]) :
                /\ SearchKeys(requests[c][i]) =
                      QueryKeys(Assign(DeleteKey(params[c][1].options.entries, "data"),
                                       CreateQuery))
                /\ \A j \in 1..Len(requests[c][i].url.search) :
                      requests[c][i].url.search[j][1] # "data"

\* C29 as stated: every request issued through a Facade instance goes to the
\* origin https://api.trello.com, whatever path the caller supplies.
C29_RequestsGoToTrello ==
    \A c \in Calls :
        params[c] # <<>> =>
            \A i \in 1..Len(requests[c]) :
                /\ requests[c][i].url.valid
                /\ requests[c][i].url.base = DefaultBaseUri
                /\ requests[c][i].url.hostSuffix = <<>>

\* The value of the search parameter k of a request, if it has one.
SearchValue(req, k) ==
    LET S == {j \in 1..Len(req.url.search) : req.url.search[j][1] = k}
    IN  IF S = {} THEN <<>>
        ELSE <<req.url.search[CHOOSE j \in S : \A l \in S : j <= l][2]>>

\* C30 as stated: a constructed instance holds a non-empty key and a
\* non-empty token; every request of a call on it carries a non-empty key
\* and token; a typed method that adds nothing to its query sends key and
\* token only, whatever an earlier call added; and no step changes the
\* credentials of a constructed instance.
C30_CredentialsPresentAndFixed ==
    /\ [](/\ trello.status = "ok" => (trello.key.s # "" /\ trello.token.s # "")
          /\ \A c \in Calls : \A i \in 1..Len(requests[c]) :
                /\ SearchValue(requests[c][i], "key") \notin {<<>>, <<"">>}
                /\ SearchValue(requests[c][i], "token") \notin {<<>>, <<"">>}
                /\ (params[c] # <<>> /\ params[c][1].fn = "getBoards") =>
                      SearchKeys(requests[c][i]) = <<"key", "token">>)
    /\ [][trello.status = "ok" => trello' = trello]_vars

====
